---- MODULE Spec2Model ----
(***************************************************************************)
(* Model of TypescriptNeuralNetwork                                        *)
(* (src/src/Typescript_Neural_network_library_class.ts): the indicator     *)
(* functions, the output codec, the dataset file and the training set.     *)
(*                                                                         *)
(* JavaScript numbers are modelled exactly: a value is a record            *)
(*   [k |-> kind, n |-> numerator, d |-> denominator]                      *)
(* with kind "num" (the reduced fraction n/d, d > 0), "sqrt" (the          *)
(* irrational sign(n) * sqrt(|n|/d)), "Infinity" (sign n), "NaN",          *)
(* "undefined" (a missing array element or property) or "null".           *)
(* Floating-point rounding is not modelled.                                *)
(***************************************************************************)
EXTENDS Integers, Sequences, FiniteSets, TLC

VARIABLES
    \* one application of an indicator function or of the codec
    candles,          \* the candle array passed in
    btcCandles,       \* the reference candle array passed in
    period,           \* the period passed in
    op,               \* the function applied, "none" before
    sma,              \* calculateSMA's result
    rsiState,         \* calculateRSI's loop state at return (rsi is the result)
    correlation,      \* calculateCorrelation's result
    enriched,         \* calculateIndicators' result
    prevCandles,      \* the arrays and the result of the run before the
    prevBtc,          \*   latest candles were appended
    prevCorrelation,
    decision,         \* the Decision passed to flattenOutput
    flat,             \* flattenOutput's result
    decoded,          \* unflattenOutput's result
    \* the instance, the files and the calls in flight
    fs,               \* the file at each path
    learningData,     \* this.learningData
    trainingSet,      \* the training set last passed to trainer.train
    brain,            \* the brain file: "missing" or "saved"
    calls             \* the addMarketTrainingData / addLimitTrainingData calls

indVars == <<candles, btcCandles, period, op, sma, rsiState, correlation, enriched,
             prevCandles, prevBtc, prevCorrelation>>

codecVars == <<decision, flat, decoded>>

procVars == <<fs, learningData, trainingSet, brain, calls>>

vars == <<indVars, codecVars, procVars>>

\* ---------------------------------------------------------------- bounds
MaxLen == 4
MaxBtcLen == 1
MaxPeriod == 3
MaxClose == 3
MaxCorrLen == 4
MaxPrice == 3
MaxLimit == 1
MaxSeed == 1
NCalls == 2

\* ------------------------------------------------------ program constants
SMA_SHORT_PERIOD == 50
SMA_LONG_PERIOD == 200
RSI_PERIOD == 14

\* ---------------------------------------------------------------- numbers
Abs(x) == IF x < 0 THEN -x ELSE x

Sign(x) == IF x > 0 THEN 1 ELSE IF x < 0 THEN -1 ELSE 0

Min(a, b) == IF a < b THEN a ELSE b

RECURSIVE GCD(_, _)
GCD(a, b) == IF b = 0 THEN a ELSE GCD(b, a % b)

NaN == [k |-> "NaN", n |-> 0, d |-> 0]

Undefined == [k |-> "undefined", n |-> 0, d |-> 0]

Null == [k |-> "null", n |-> 0, d |-> 0]

Inf(s) == [k |-> "Infinity", n |-> s, d |-> 0]

\* the number n/d (d # 0), reduced
Num(n, d) ==
    LET g == GCD(Abs(n), Abs(d))
        s == IF d < 0 THEN -1 ELSE 1
    IN [k |-> "num", n |-> s * (n \div g), d |-> s * (d \div g)]

Int2Num(x) == Num(x, 1)

IsNum(v) == v.k = "num"

\* a + b
NumAdd(a, b) ==
    IF a.k = "NaN" \/ b.k = "NaN" THEN NaN
    ELSE IF a.k = "Infinity" /\ b.k = "Infinity"
         THEN IF a.n = b.n THEN a ELSE NaN
    ELSE IF a.k = "Infinity" THEN a
    ELSE IF b.k = "Infinity" THEN b
    ELSE Num(a.n * b.d + b.n * a.d, a.d * b.d)

NumNeg(a) == IF a.k = "NaN" THEN NaN ELSE [a EXCEPT !.n = -a.n]

\* a - b
NumSub(a, b) == NumAdd(a, NumNeg(b))

\* a * b
NumMul(a, b) ==
    IF a.k = "NaN" \/ b.k = "NaN" THEN NaN
    ELSE IF a.k = "Infinity" \/ b.k = "Infinity"
         THEN IF a.n = 0 \/ b.n = 0 THEN NaN ELSE Inf(Sign(a.n) * Sign(b.n))
    ELSE Num(a.n * b.n, a.d * b.d)

\* a / b, with JavaScript's results for a zero or infinite divisor
NumDiv(a, b) ==
    IF a.k = "NaN" \/ b.k = "NaN" THEN NaN
    ELSE IF a.k = "Infinity"
         THEN IF b.k = "Infinity" THEN NaN
              ELSE Inf(a.n * (IF b.n < 0 THEN -1 ELSE 1))
    ELSE IF b.k = "Infinity" THEN Int2Num(0)
    ELSE IF b.n = 0
         THEN IF a.n = 0 THEN NaN ELSE Inf(Sign(a.n))
    ELSE Num(a.n * b.d, a.d * b.n)

NumLeq(a, b) == a.n * b.d <= b.n * a.d

ISqrt(x) == CHOOSE r \in 0..x : r * r <= x /\ (r + 1) * (r + 1) > x

IsSquare(x) == ISqrt(x) * ISqrt(x) = x

\* c / Math.sqrt(r) for numbers c and r >= 0
DivBySqrt(c, r) ==
    IF r.n = 0 THEN NumDiv(c, Int2Num(0))
    ELSE LET q == NumDiv(NumMul(c, c), r)
         IN IF IsSquare(q.n) /\ IsSquare(q.d)
            THEN Num(Sign(c.n) * ISqrt(q.n), ISqrt(q.d))
            ELSE [k |-> "sqrt", n |-> Sign(c.n) * q.n, d |-> q.d]

\* array[index] of a JavaScript array, index counted from 0
At(arr, index) == IF index >= 0 /\ index < Len(arr) THEN arr[index + 1] ELSE Undefined

\* ---------------------------------------------------------------- candles
\* A candle; the indicator code reads close, flattenInput reads all four.
MkCandle(c) == [open |-> c, high |-> c, low |-> c, close |-> c]

RECURSIVE SeqsUpTo(_, _)
SeqsUpTo(S, n) ==
    IF n = 0 THEN {<<>>}
    ELSE LET prev == SeqsUpTo(S, n - 1)
         IN prev \cup {Append(s, x) : s \in {t \in prev : Len(t) = n - 1}, x \in S}

CandleSeq(closes) == [i \in 1..Len(closes) |-> MkCandle(closes[i])]

\* -------------------------------------------------------- calculateSMA
\* the inner loop: sum += candles[i - j].close for j from the given j to period - 1
\* mutant: the window sum leaves out its oldest close
RECURSIVE SMASum_Short(_, _, _, _, _)
SMASum_Short(candleArr, i, j, per, sum) ==
    IF j < per - 1
    THEN SMASum_Short(candleArr, i, j + 1, per, sum + candleArr[i - j + 1].close)
    ELSE sum

RECURSIVE SMASum(_, _, _, _, _)
SMASum(candleArr, i, j, per, sum) ==
    IF j < per
    THEN SMASum(candleArr, i, j + 1, per, sum + candleArr[i - j + 1].close)
    ELSE sum

RECURSIVE SMALoop(_, _, _, _)
SMALoop(candleArr, per, i, out) ==
    IF i < Len(candleArr)
    THEN IF i < per - 1
         THEN SMALoop(candleArr, per, i + 1, Append(out, Int2Num(0)))
         ELSE SMALoop(candleArr, per, i + 1,
                      Append(out, NumDiv(Int2Num(SMASum(candleArr, i, 0, per, 0)),
                                         Int2Num(per))))
    ELSE out

calculateSMA(candleArr, per) == SMALoop(candleArr, per, 0, <<>>)

\* -------------------------------------------------------- calculateRSI
\* the accumulators after the change of step i is added
AddChange(acc, change) ==
    IF change > 0
    THEN [acc EXCEPT !.gains = acc.gains + change]
    ELSE [acc EXCEPT !.losses = acc.losses - change]

\* mutant: a retired change is taken from the other accumulator
RetireChange_Swapped(acc, prevChange) ==
    IF prevChange > 0
    THEN [acc EXCEPT !.losses = acc.losses - prevChange]
    ELSE [acc EXCEPT !.gains = acc.gains + prevChange]

\* the accumulators after the change period steps behind is retired
RetireChange(acc, prevChange) ==
    IF prevChange > 0
    THEN [acc EXCEPT !.gains = acc.gains - prevChange]
    ELSE [acc EXCEPT !.losses = acc.losses + prevChange]

\* 100 - (100 / (1 + rs)) with rs = avgGain / avgLoss
RSIValue(acc, per) ==
    LET avgGain == NumDiv(Int2Num(acc.gains), Int2Num(per))
        avgLoss == NumDiv(Int2Num(acc.losses), Int2Num(per))
        rs == NumDiv(avgGain, avgLoss)
    IN NumSub(Int2Num(100), NumDiv(Int2Num(100), NumAdd(Int2Num(1), rs)))

\* the loop of calculateRSI from step i on; st.rsi is the array built so far,
\* st.acc the accumulators, st.used the accumulators each computed value read
RECURSIVE RSILoop(_, _, _, _)
RSILoop(candleArr, per, i, st) ==
    IF i < Len(candleArr)
    THEN LET change == candleArr[i + 1].close - candleArr[i].close
             added == AddChange(st.acc, change)
         IN IF i >= per
            THEN LET prevChange == candleArr[i - per + 2].close
                                   - candleArr[i - per + 1].close
                 IN RSILoop(candleArr, per, i + 1,
                            [rsi  |-> Append(st.rsi, RSIValue(added, per)),
                             acc  |-> RetireChange(added, prevChange),
                             used |-> Append(st.used, added)])
            ELSE RSILoop(candleArr, per, i + 1,
                         [rsi  |-> Append(st.rsi, Int2Num(0)),
                          acc  |-> added,
                          used |-> Append(st.used, added)])
    ELSE st

RSIRun(candleArr, per) ==
    RSILoop(candleArr, per, 1,
            [rsi |-> <<>>, acc |-> [gains |-> 0, losses |-> 0], used |-> <<>>])

calculateRSI(candleArr, per) == RSIRun(candleArr, per).rsi

\* ------------------------------------------------- calculateCorrelation
\* candles.slice(0, i + 1).reduce((sum, candle) => sum + candle.close, 0)
RECURSIVE SumCloses(_, _, _, _)
SumCloses(candleArr, j, i, sum) ==
    IF j <= i /\ j < Len(candleArr)
    THEN SumCloses(candleArr, j + 1, i, sum + candleArr[j + 1].close)
    ELSE sum

\* mutant: the mean of the whole array instead of the prefix 0 .. i
SliceMean_Whole(candleArr, i) ==
    NumDiv(Int2Num(SumCloses(candleArr, 0, Len(candleArr) - 1, 0)),
           Int2Num(Len(candleArr)))

\* slice(0, i + 1) of an array shorter than i + 1 is the whole array
SliceMean(candleArr, i) ==
    NumDiv(Int2Num(SumCloses(candleArr, 0, i, 0)), Int2Num(i + 1))

RECURSIVE CorrSums(_, _, _, _, _, _, _)
CorrSums(candleArr, btcArr, meanA, meanB, j, i, s) ==
    IF j <= i
    THEN LET da == NumSub(Int2Num(candleArr[j + 1].close), meanA)
             db == NumSub(Int2Num(btcArr[j + 1].close), meanB)
         IN CorrSums(candleArr, btcArr, meanA, meanB, j + 1, i,
                     [cov  |-> NumAdd(s.cov, NumMul(da, db)),
                      varA |-> NumAdd(s.varA, NumMul(da, da)),
                      varB |-> NumAdd(s.varB, NumMul(db, db))])
    ELSE s

\* the value pushed at index i < btcArr.length
CorrelationAt(candleArr, btcArr, i) ==
    LET meanA == SliceMean(candleArr, i)
        meanB == SliceMean(btcArr, i)
        s == CorrSums(candleArr, btcArr, meanA, meanB, 0, i,
                      [cov |-> Int2Num(0), varA |-> Int2Num(0), varB |-> Int2Num(0)])
    IN DivBySqrt(s.cov, NumMul(s.varA, s.varB))

RECURSIVE CorrLoop(_, _, _, _)
CorrLoop(candleArr, btcArr, i, corr) ==
    IF i < Len(candleArr)
    THEN IF i < Len(btcArr)
         THEN CorrLoop(candleArr, btcArr, i + 1,
                       Append(corr, CorrelationAt(candleArr, btcArr, i)))
         ELSE CorrLoop(candleArr, btcArr, i + 1, Append(corr, Int2Num(0)))
    ELSE corr

calculateCorrelation(candleArr, btcArr) == CorrLoop(candleArr, btcArr, 0, <<>>)

\* -------------------------------------------------- calculateIndicators
\* candles.map((candle, index) => ...) over the four indicator arrays
Enrich(candleArr, btcArr, shortPeriod, longPeriod, rsiPeriod) ==
    LET smaShort == calculateSMA(candleArr, shortPeriod)
        smaLong == calculateSMA(candleArr, longPeriod)
        rsi == calculateRSI(candleArr, rsiPeriod)
        btcCorrelation == calculateCorrelation(candleArr, btcArr)
    IN [index \in 1..Len(candleArr) |->
          [candle          |-> candleArr[index],
           sma_short       |-> At(smaShort, index - 1),
           sma_long        |-> At(smaLong, index - 1),
           rsi             |-> At(rsi, index - 1),
           btc_correlation |-> At(btcCorrelation, index - 1)]]

calculateIndicators(candleArr, btcArr) ==
    Enrich(candleArr, btcArr, SMA_SHORT_PERIOD, SMA_LONG_PERIOD, RSI_PERIOD)

\* ------------------------------------------------------------ the codec
flattenOutput(output) ==
    <<IF output.positionType = "LONG" THEN 1 ELSE 0,
      IF output.positionType = "SHORT" THEN 1 ELSE 0,
      IF output.positionType = "NO" THEN 1 ELSE 0,
      output.takeProfitPrice,
      output.stopLossPrice>>

\* mutant: the prices are read from slots 2 and 3
unflattenOutput_Slots23(output) ==
    [positionType    |-> IF output[1] = 1 THEN "LONG"
                         ELSE IF output[2] = 1 THEN "SHORT" ELSE "NO",
     takeProfitPrice |-> output[3],
     stopLossPrice   |-> output[4]]

unflattenOutput(output) ==
    [positionType    |-> IF output[1] = 1 THEN "LONG"
                         ELSE IF output[2] = 1 THEN "SHORT" ELSE "NO",
     takeProfitPrice |-> output[4],
     stopLossPrice   |-> output[5]]

\* candles.flatMap(candle => [open, high, low, close, sma_short, sma_long,
\* rsi, btc_correlation])
RECURSIVE FlatMapCandles(_, _)
FlatMapCandles(cds, i) ==
    IF i > Len(cds) THEN <<>>
    ELSE <<cds[i].candle.open, cds[i].candle.high, cds[i].candle.low,
           cds[i].candle.close, cds[i].sma_short, cds[i].sma_long,
           cds[i].rsi, cds[i].btc_correlation>> \o FlatMapCandles(cds, i + 1)

flattenInput(input) == FlatMapCandles(input.candles, 1)

\* ------------------------------------------------------- the dataset file
\* what JSON.parse reads back for a number JSON.stringify wrote: NaN and the
\* infinities are written as null; a property whose value is undefined is
\* left out, and reading it gives undefined again
JSONNumber(v) == IF v.k \in {"NaN", "Infinity"} THEN Null ELSE v

\* JSON.parse(JSON.stringify(trainingData))
JSONRoundTrip(td) ==
    [input  |-> [symbol   |-> td.input.symbol,
                 interval |-> td.input.interval,
                 candles  |-> [i \in 1..Len(td.input.candles) |->
                     [candle          |-> td.input.candles[i].candle,
                      sma_short       |-> JSONNumber(td.input.candles[i].sma_short),
                      sma_long        |-> JSONNumber(td.input.candles[i].sma_long),
                      rsi             |-> JSONNumber(td.input.candles[i].rsi),
                      btc_correlation |->
                          JSONNumber(td.input.candles[i].btc_correlation)]]],
     output |-> td.output]

\* a file: missing, holding the JSON text of the array data, or holding text
\* JSON.parse rejects
MissingFile == [st |-> "missing", data |-> <<>>]

MalformedFile == [st |-> "malformed", data |-> <<>>]

JSONFile(data) == [st |-> "json", data |-> data]

\* loadLearningData of a file JSON.parse accepts: the file after, and the
\* array returned
loadLearningData(file) ==
    IF file.st = "missing"
    THEN [file |-> JSONFile(<<>>), data |-> <<>>]
    ELSE [file |-> file, data |-> file.data]

\* the training data built by addMarketTrainingData / addLimitTrainingData
TrainingData(option, candleArr, btcArr) ==
    [input  |-> [symbol   |-> option.symbol,
                 interval |-> option.interval,
                 candles  |-> calculateIndicators(candleArr, btcArr)],
     output |-> [positionType    |-> option.positionType,
                 takeProfitPrice |-> option.takeProfitPrice,
                 stopLossPrice   |-> option.stopLossPrice]]

\* mutant: the new example is put first (unshift for push)
AppendExample_Unshift(file, trainingData) ==
    IF file.st = "malformed"
    THEN [threw |-> TRUE, file |-> file]
    ELSE LET data == IF file.st = "json" THEN file.data ELSE <<>>
         IN [threw |-> FALSE,
             file  |-> JSONFile(<<JSONRoundTrip(trainingData)>> \o data)]

\* mutant: the file is opened for writing, and so emptied, before it is parsed
AppendExample_TruncateFirst(file, trainingData) ==
    IF file.st = "malformed"
    THEN [threw |-> TRUE, file |-> JSONFile(<<>>)]
    ELSE LET data == IF file.st = "json" THEN file.data ELSE <<>>
         IN [threw |-> FALSE,
             file  |-> JSONFile(Append(data, JSONRoundTrip(trainingData)))]

\* mutant: the existing file is not read
AppendExample_NoRead(file, trainingData) ==
    [threw |-> FALSE, file |-> JSONFile(<<JSONRoundTrip(trainingData)>>)]

\* let data = []; if (existsSync) data = JSON.parse(readFileSync);
\* data.push(trainingData); writeFileSync(JSON.stringify(data, null, 2)):
\* whether it threw, and the file after
AppendExample(file, trainingData) ==
    IF file.st = "malformed"
    THEN [threw |-> TRUE, file |-> file]
    ELSE LET data == IF file.st = "json" THEN file.data ELSE <<>>
         IN [threw |-> FALSE,
             file  |-> JSONFile([i \in 1..(Len(data) + 1) |->
                          IF i <= Len(data) THEN data[i]
                          ELSE JSONRoundTrip(trainingData)])]

\* this.learningData.map(data => ({input: flattenInput, output: flattenOutput}))
TrainingSetOf(data) ==
    [i \in 1..Len(data) |->
       [input |-> flattenInput(data[i].input), output |-> flattenOutput(data[i].output)]]

\* ==================================================================== *\
\* SpecInd: one application of calculateSMA, calculateRSI or the map of  *\
\* calculateIndicators to a bounded candle array.                        *\
\* ==================================================================== *\
Closes == 1..MaxClose

BtcCloses == {1, 2}

\* the example of the specification's section 8
ExampleCloses == <<1, 2, 3, 4, 5>>

CandleInputs ==
    {CandleSeq(c) : c \in SeqsUpTo(Closes, MaxLen) \cup {ExampleCloses}}

BtcInputs == {CandleSeq(c) : c \in SeqsUpTo(BtcCloses, MaxBtcLen)}

NoRSI == [rsi |-> <<>>, acc |-> [gains |-> 0, losses |-> 0], used |-> <<>>]

NoDecision == [positionType |-> "NO", takeProfitPrice |-> 0, stopLossPrice |-> 0]

NoOption == [symbol |-> "none", interval |-> "none", positionType |-> "NO",
             takeProfitPrice |-> 0, stopLossPrice |-> 0]

\* a call not started; a settled call keeps its path and its outcome only
NoCall == [pc |-> "idle", kind |-> "none", filePath |-> "none", option |-> NoOption,
           candles |-> <<>>, error |-> "none"]

\* the variables a specification does not use keep these values
NoCodec ==
    /\ decision = NoDecision
    /\ flat = <<>>
    /\ decoded = NoDecision

NoProcess ==
    /\ fs = <<>>
    /\ learningData = <<>>
    /\ trainingSet = <<>>
    /\ brain = "missing"
    /\ calls = <<>>

NoResults ==
    /\ sma = <<>>
    /\ rsiState = NoRSI
    /\ correlation = <<>>
    /\ enriched = <<>>
    /\ prevCandles = <<>>
    /\ prevBtc = <<>>
    /\ prevCorrelation = <<>>

InitInd ==
    /\ candles \in CandleInputs
    /\ btcCandles = <<>>
    /\ period = 0
    /\ op = "none"
    /\ NoResults
    /\ NoCodec
    /\ NoProcess

DoSMA ==
    /\ op = "none"
    /\ \E p \in 1..MaxPeriod :
          /\ period' = p
          /\ sma' = calculateSMA(candles, p)
    /\ op' = "calculateSMA"
    /\ UNCHANGED <<candles, btcCandles, rsiState, correlation, enriched,
                   prevCandles, prevBtc, prevCorrelation, codecVars, procVars>>

DoRSI ==
    /\ op = "none"
    /\ \E p \in 1..MaxPeriod :
          /\ period' = p
          /\ rsiState' = RSIRun(candles, p)
    /\ op' = "calculateRSI"
    /\ UNCHANGED <<candles, btcCandles, sma, correlation, enriched,
                   prevCandles, prevBtc, prevCorrelation, codecVars, procVars>>

\* calculateIndicators with the periods p (short), p + 1 (long), p (RSI)
DoIndicators ==
    /\ op = "none"
    /\ \E p \in 1..MaxPeriod, b \in BtcInputs :
          /\ period' = p
          /\ btcCandles' = b
          /\ enriched' = Enrich(candles, b, p, p + 1, p)
    /\ op' = "calculateIndicators"
    /\ UNCHANGED <<candles, sma, rsiState, correlation,
                   prevCandles, prevBtc, prevCorrelation, codecVars, procVars>>

NextInd == DoSMA \/ DoRSI \/ DoIndicators

SpecInd == InitInd /\ [][NextInd]_vars


\* the sum of the closes at indices lo .. hi (counted from 0), oldest first
RECURSIVE WindowSum(_, _, _)
WindowSum(candleArr, lo, hi) ==
    IF lo > hi THEN 0 ELSE candleArr[lo + 1].close + WindowSum(candleArr, lo + 1, hi)

ExampleSMA == <<Int2Num(0), Int2Num(0), Int2Num(2), Int2Num(3), Int2Num(4)>>

\* C1: calculateSMA returns one value per candle: exactly 0 at every index
\* i < period - 1, and the arithmetic mean of the closes at indices
\* i-period+1 .. i at every index i >= period - 1; closes [1,2,3,4,5] with
\* period 3 give [0,0,2,3,4].
C1_SMAWindowMean ==
    op = "calculateSMA" =>
      /\ Len(sma) = Len(candles)
      /\ \A i \in 0..(Len(candles) - 1) :
           IF i < period - 1
           THEN sma[i + 1] = Int2Num(0)
           ELSE /\ IsNum(sma[i + 1])
                /\ sma[i + 1].n * period
                     = WindowSum(candles, i - period + 1, i) * sma[i + 1].d
      /\ (candles = CandleSeq(ExampleCloses) /\ period = 3 => sma = ExampleSMA)

C1_Witness ==
    /\ op = "calculateSMA"
    /\ candles = CandleSeq(ExampleCloses)
    /\ period = 3
    /\ sma = ExampleSMA

C2_IndicatorsAligned ==
    op = "calculateIndicators" =>
      /\ Len(calculateSMA(candles, period)) = Len(candles)
      /\ Len(calculateSMA(candles, period + 1)) = Len(candles)
      /\ Len(calculateRSI(candles, period)) = Len(candles)
      /\ Len(calculateCorrelation(candles, btcCandles)) = Len(candles)
      /\ Len(enriched) = Len(candles)
      /\ \A index \in 1..Len(enriched) :
           /\ enriched[index].candle = candles[index]
           /\ enriched[index].sma_short # Undefined
           /\ enriched[index].sma_long # Undefined
           /\ enriched[index].rsi # Undefined
           /\ enriched[index].btc_correlation # Undefined

\* the sums of the positive and of the negative close-to-close changes over
\* the transitions lo .. hi (transition t is from candle t-1 to candle t)
RECURSIVE TransitionSums(_, _, _)
TransitionSums(candleArr, lo, hi) ==
    IF lo > hi THEN [gains |-> 0, losses |-> 0]
    ELSE LET rest == TransitionSums(candleArr, lo + 1, hi)
             change == candleArr[lo + 1].close - candleArr[lo].close
         IN IF change > 0
            THEN [rest EXCEPT !.gains = rest.gains + change]
            ELSE [rest EXCEPT !.losses = rest.losses - change]

\* C9 (as claimed): the momentum value attached to candle index i is 0 for
\* every i < period, and the value attached to candle index period is
\* 100 - 100/(1 + avgGain/avgLoss) over the first period transitions.
C9_MomentumWarmup ==
    op = "calculateIndicators" =>
      /\ \A i \in 0..(Len(candles) - 1) :
           i < period => enriched[i + 1].rsi = Int2Num(0)
      /\ Len(candles) > period =>
           enriched[period + 1].rsi
             = RSIValue(TransitionSums(candles, 1, period), period)

\* ==================================================================== *\
\* SpecCorr: calculateCorrelation on two bounded series, then re-run      *\
\* after one future candle is appended to either or both series.          *\
\* ==================================================================== *\
CorrCloses == {1, 2}

CorrInputs == {CandleSeq(c) : c \in SeqsUpTo(CorrCloses, MaxCorrLen)}

CorrBtcInputs == {CandleSeq(c) : c \in SeqsUpTo(BtcCloses, MaxCorrLen)}

InitCorr ==
    /\ candles \in CorrInputs
    /\ btcCandles = <<>>
    /\ period = 0
    /\ op = "none"
    /\ NoResults
    /\ NoCodec
    /\ NoProcess

DoCorrelation ==
    /\ op = "none"
    /\ \E b \in CorrBtcInputs :
          /\ btcCandles' = b
          /\ correlation' = calculateCorrelation(candles, b)
    /\ op' = "calculateCorrelation"
    /\ UNCHANGED <<candles, period, sma, rsiState, enriched,
                   prevCandles, prevBtc, prevCorrelation, codecVars, procVars>>

\* the future candles appended to a series in one step: one, or none
FutureOf(closes) == {<<>>} \cup {CandleSeq(<<x>>) : x \in closes}

\* the run is repeated with future candles appended to either or both series
AppendFuture ==
    /\ op \in {"calculateCorrelation", "rerun"}
    /\ \E extA \in FutureOf(CorrCloses), extB \in FutureOf(BtcCloses) :
         /\ extA # <<>> \/ extB # <<>>
         /\ Len(candles) + Len(extA) <= MaxCorrLen
         /\ Len(btcCandles) + Len(extB) <= MaxCorrLen
         /\ candles' = candles \o extA
         /\ btcCandles' = btcCandles \o extB
    /\ correlation' = calculateCorrelation(candles', btcCandles')
    /\ prevCandles' = candles
    /\ prevBtc' = btcCandles
    /\ prevCorrelation' = correlation
    /\ op' = "rerun"
    /\ UNCHANGED <<period, sma, rsiState, enriched, codecVars, procVars>>

NextCorr == DoCorrelation \/ AppendFuture

SpecCorr == InitCorr /\ [][NextCorr]_vars

\* C7 (as claimed): after future candles are appended to either or both
\* series, the correlation value at every index of the original output is
\* unchanged.
C7_AllIndicesUnchanged ==
    op = "rerun" =>
      \A i \in 1..Len(prevCorrelation) : correlation[i] = prevCorrelation[i]

\* C7 (amended): the value is unchanged at every index that both original
\* series covered.
C7_PrefixUnchanged ==
    op = "rerun" =>
      \A i \in 1..Min(Len(prevCandles), Len(prevBtc)) :
        /\ i <= Len(correlation)
        /\ correlation[i] = prevCorrelation[i]

\* a re-run whose original output held a correlation strictly between -1 and 1
C7_Witness ==
    /\ op = "rerun"
    /\ Len(candles) > Len(prevCandles)
    /\ Len(btcCandles) > Len(prevBtc)
    /\ \E i \in 1..Min(Len(prevCandles), Len(prevBtc)) :
         /\ prevCorrelation[i].k \in {"num", "sqrt"}
         /\ prevCorrelation[i].n # 0
         /\ prevCorrelation[i].n # prevCorrelation[i].d
         /\ prevCorrelation[i].n # -prevCorrelation[i].d
         /\ correlation[i] = prevCorrelation[i]


\* ==================================================================== *\
\* SpecCodec: flattenOutput, then unflattenOutput of its result.          *\
\* ==================================================================== *\
Prices == 0..MaxPrice

Decisions ==
    [positionType : {"LONG", "SHORT", "NO"}, takeProfitPrice : Prices,
     stopLossPrice : Prices]

InitCodec ==
    /\ decision \in Decisions
    /\ flat = <<>>
    /\ decoded = NoDecision
    /\ op = "none"
    /\ candles = <<>>
    /\ btcCandles = <<>>
    /\ period = 0
    /\ NoResults
    /\ NoProcess

DoFlattenOutput ==
    /\ op = "none"
    /\ flat' = flattenOutput(decision)
    /\ op' = "flattenOutput"
    /\ UNCHANGED <<candles, btcCandles, period, sma, rsiState, correlation, enriched,
                   prevCandles, prevBtc, prevCorrelation, decision, decoded, procVars>>

DoUnflattenOutput ==
    /\ op = "flattenOutput"
    /\ decoded' = unflattenOutput(flat)
    /\ op' = "unflattenOutput"
    /\ UNCHANGED <<candles, btcCandles, period, sma, rsiState, correlation, enriched,
                   prevCandles, prevBtc, prevCorrelation, decision, flat, procVars>>

NextCodec == DoFlattenOutput \/ DoUnflattenOutput

SpecCodec == InitCodec /\ [][NextCodec]_vars

\* C5: flattenOutput(d) has length 5 with exactly one 1 among slots 0..2,
\* and unflattenOutput(flattenOutput(d)) has d's positionType,
\* takeProfitPrice and stopLossPrice.
C5_OutputRoundTrip ==
    /\ op \in {"flattenOutput", "unflattenOutput"} =>
         /\ Len(flat) = 5
         /\ Cardinality({i \in 1..3 : flat[i] = 1}) = 1
         /\ \A i \in 1..3 : flat[i] \in {0, 1}
    /\ op = "unflattenOutput" =>
         /\ decoded.positionType = decision.positionType
         /\ decoded.takeProfitPrice = decision.takeProfitPrice
         /\ decoded.stopLossPrice = decision.stopLossPrice

\* a NO decision, whose prices differ from each other and from slot 2, decoded
C5_Witness ==
    /\ op = "unflattenOutput"
    /\ decision.positionType = "NO"
    /\ decision.takeProfitPrice = 3
    /\ decision.stopLossPrice = 2
    /\ decoded = decision

\* ==================================================================== *\
\* Spec: one TypescriptNeuralNetwork instance constructed on DataPath,    *\
\* NCalls calls of addMarketTrainingData / addLimitTrainingData in        *\
\* flight, and trainNetwork.                                              *\
\* ==================================================================== *\
DataPath == "data.json"

OtherPath == "other.json"

Paths == {DataPath, OtherPath}

CallIds == 1..NCalls

MarketOptionSet ==
    {[symbol |-> "ETHUSDT", interval |-> "1h", positionType |-> "LONG",
      takeProfitPrice |-> 3, stopLossPrice |-> 1]}

LimitOptionSet ==
    {[symbol |-> "ETHUSDT", interval |-> "1h", positionType |-> "SHORT",
      orderPrice |-> 2, takeProfitPrice |-> 1, stopLossPrice |-> 3]}

\* what futuresCandles returns: 1 .. MaxLimit candles with rising closes
FetchResults == {CandleSeq([i \in 1..n |-> i]) : n \in 1..MaxLimit}

\* the entry a dataset file holds before the instance is constructed
SeedOption ==
    [symbol |-> "ETHUSDT", interval |-> "1h", positionType |-> "NO",
     takeProfitPrice |-> 0, stopLossPrice |-> 0]

SeedEntries ==
    {JSONRoundTrip(TrainingData(SeedOption, CandleSeq(<<2, 1>>), CandleSeq(<<1, 2>>)))}

InitialDataFiles ==
    {MissingFile} \cup {JSONFile(d) : d \in SeqsUpTo(SeedEntries, MaxSeed)}

Init ==
    /\ \E f \in InitialDataFiles, o \in {MissingFile, MalformedFile} :
         /\ fs = [p \in Paths |-> IF p = DataPath THEN loadLearningData(f).file ELSE o]
         /\ learningData = loadLearningData(f).data
    /\ trainingSet = <<>>
    /\ brain = "missing"
    /\ calls = [c \in CallIds |-> NoCall]
    /\ op = "none"
    /\ candles = <<>>
    /\ btcCandles = <<>>
    /\ period = 0
    /\ NoResults
    /\ NoCodec

\* calls are numbered in the order they are made
NextCall(c) == calls[c].pc = "idle" /\ \A b \in 1..(c - 1) : calls[b].pc # "idle"

\* the call runs to its first await
addMarketTrainingData(c, filePath, option) ==
    /\ NextCall(c)
    /\ calls' = [calls EXCEPT ![c] = [pc |-> "awaitCandles", kind |-> "market",
                                      filePath |-> filePath, option |-> option,
                                      candles |-> <<>>, error |-> "none"]]
    /\ UNCHANGED <<fs, learningData, trainingSet, brain, indVars, codecVars>>

addLimitTrainingData(c, filePath, option) ==
    /\ NextCall(c)
    /\ calls' = [calls EXCEPT ![c] = [pc |-> "awaitCandles", kind |-> "limit",
                                      filePath |-> filePath, option |-> option,
                                      candles |-> <<>>, error |-> "none"]]
    /\ UNCHANGED <<fs, learningData, trainingSet, brain, indVars, codecVars>>

\* the first fetchCandles resolves; the call runs to its second await
CandlesFetched(c, result) ==
    /\ calls[c].pc = "awaitCandles"
    /\ calls' = [calls EXCEPT ![c].pc = "awaitBtc", ![c].candles = result]
    /\ UNCHANGED <<fs, learningData, trainingSet, brain, indVars, codecVars>>

\* either fetchCandles rejects: the call rejects with the client's error
FetchRejected(c) ==
    /\ calls[c].pc \in {"awaitCandles", "awaitBtc"}
    /\ calls' = [calls EXCEPT ![c] = [NoCall EXCEPT !.pc = "rejected",
                                                    !.filePath = calls[c].filePath,
                                                    !.error = "fetch"]]
    /\ UNCHANGED <<fs, learningData, trainingSet, brain, indVars, codecVars>>

\* the second fetchCandles of addMarketTrainingData resolves with result; the
\* rest of the call runs without suspension
MarketBtcFetched(c, result) ==
    /\ calls[c].pc = "awaitBtc"
    /\ calls[c].kind = "market"
    /\ \E r \in {AppendExample(fs[calls[c].filePath],
                   TrainingData(calls[c].option, calls[c].candles, result))} :
         /\ fs' = [fs EXCEPT ![calls[c].filePath] = r.file]
         /\ calls' = [calls EXCEPT ![c] =
                        [NoCall EXCEPT !.pc = IF r.threw THEN "rejected" ELSE "resolved",
                                       !.filePath = calls[c].filePath,
                                       !.error = IF r.threw THEN "SyntaxError"
                                                 ELSE "none"]]
    /\ UNCHANGED <<learningData, trainingSet, brain, indVars, codecVars>>

\* the same for addLimitTrainingData
LimitBtcFetched(c, result) ==
    /\ calls[c].pc = "awaitBtc"
    /\ calls[c].kind = "limit"
    /\ \E r \in {AppendExample(fs[calls[c].filePath],
                   TrainingData(calls[c].option, calls[c].candles, result))} :
         /\ fs' = [fs EXCEPT ![calls[c].filePath] = r.file]
         /\ calls' = [calls EXCEPT ![c] =
                        [NoCall EXCEPT !.pc = IF r.threw THEN "rejected" ELSE "resolved",
                                       !.filePath = calls[c].filePath,
                                       !.error = IF r.threw THEN "SyntaxError"
                                                 ELSE "none"]]
    /\ UNCHANGED <<learningData, trainingSet, brain, indVars, codecVars>>

\* trainNetwork, with the saveNetwork it ends with
trainNetwork ==
    /\ trainingSet' = TrainingSetOf(learningData)
    /\ brain' = "saved"
    /\ UNCHANGED <<fs, learningData, calls, indVars, codecVars>>

\* the calls that add training data, in any interleaving
NextDataset ==
    \/ \E c \in CallIds, p \in Paths, o \in MarketOptionSet :
         addMarketTrainingData(c, p, o)
    \/ \E c \in CallIds, p \in Paths, o \in LimitOptionSet :
         addLimitTrainingData(c, p, o)
    \/ \E c \in CallIds, r \in FetchResults : CandlesFetched(c, r)
    \/ \E c \in CallIds : FetchRejected(c)
    \/ \E c \in CallIds, r \in FetchResults : MarketBtcFetched(c, r)
    \/ \E c \in CallIds, r \in FetchResults : LimitBtcFetched(c, r)

SpecDataset == Init /\ [][NextDataset]_vars

\* the same with trainNetwork called at any point
Next == NextDataset \/ trainNetwork

Spec == Init /\ [][Next]_vars

\* the entries the file at path p holds (none when there is no file)
Persisted(p) == IF fs[p].st = "json" THEN fs[p].data ELSE <<>>

\* C3: a step in which a call completes successfully on a path whose file is
\* missing or well formed leaves that file with the entries it had, unchanged
\* and in order, followed by the call's new example as the last entry, and
\* leaves the other file alone.
C3_AppendMonotonic ==
    [][\A c \in CallIds :
         calls[c].pc = "awaitBtc" /\ calls'[c].pc = "resolved" =>
           LET p == calls[c].filePath
               before == Persisted(p)
           IN /\ fs'[p].st = "json"
              /\ Len(fs'[p].data) = Len(before) + 1
              /\ SubSeq(fs'[p].data, 1, Len(before)) = before
              /\ \E b \in FetchResults :
                   fs'[p].data[Len(before) + 1]
                     = JSONRoundTrip(TrainingData(calls[c].option, calls[c].candles, b))
              /\ \A q \in Paths \ {p} : fs'[q] = fs[q]]_vars

\* two calls have appended after a seed entry, the three entries all differ
C3_Witness ==
    /\ Len(learningData) = 1
    /\ Len(fs[DataPath].data) = 3
    /\ fs[DataPath].data[1] = learningData[1]
    /\ fs[DataPath].data[2] # fs[DataPath].data[1]
    /\ fs[DataPath].data[3] # fs[DataPath].data[2]
    /\ fs[DataPath].data[3] # fs[DataPath].data[1]
    /\ \A c \in CallIds : calls[c].pc = "resolved"

\* C4 (as claimed): trainNetwork passes to the trainer one vector pair per
\* example of the dataset file the instance was constructed on, as that file
\* stands at the call, in dataset order.
C4_TrainsOnCurrentDataset ==
    [][brain = "missing" /\ brain' = "saved" =>
         trainingSet' = TrainingSetOf(Persisted(DataPath))]_vars

\* C6: a step in which a call rejects leaves every file as it was, and the
\* call ends rejected with the error of the fetch or of JSON.parse.
C6_FailedAppendAtomic ==
    [][\A c \in CallIds :
         /\ calls[c].pc # "rejected" /\ calls'[c].pc = "rejected" =>
              /\ fs' = fs
              /\ calls'[c].error \in {"fetch", "SyntaxError"}
         /\ calls[c].pc = "awaitBtc" /\ fs[calls[c].filePath].st = "malformed" =>
              calls'[c].pc \in {"awaitBtc", "rejected"}]_vars

\* one call rejected by a fetch and one by the malformed file, which is as
\* it was
C6_Witness ==
    /\ \E c \in CallIds : calls[c].pc = "rejected" /\ calls[c].error = "fetch"
    /\ \E c \in CallIds :
         /\ calls[c].pc = "rejected"
         /\ calls[c].error = "SyntaxError"
         /\ calls[c].filePath = OtherPath
    /\ fs[OtherPath] = MalformedFile

\* the calls on path p that completed successfully
Resolved(p) == {c \in CallIds : calls[c].pc = "resolved" /\ calls[c].filePath = p}

\* the entries the file at path p held when the instance was constructed
InitialCount(p) == IF p = DataPath THEN Len(learningData) ELSE 0

\* C10: whatever the interleaving, a well-formed file holds one entry more
\* than at the start for each call on it that completed successfully; so once
\* all k calls on it have completed it holds exactly k more.
C10_NoLostAppend ==
    \A p \in Paths :
      fs[p].st # "malformed" =>
        Len(Persisted(p)) = InitialCount(p) + Cardinality(Resolved(p))

\* both calls were suspended at the same time after the same fetch, and both
\* completed on the same file
C10_Witness ==
    /\ \A c \in CallIds : calls[c].pc = "resolved" /\ calls[c].filePath = DataPath
    /\ Len(fs[DataPath].data) = Len(learningData) + NCalls
    /\ Len(learningData) = 1

====
